---- MODULE Spec2Model ----
(***************************************************************************)
(* Model of berpf (src/berpf/berpf.py): a Bernoulli particle filter.       *)
(*                                                                         *)
(* Numbers.  A numpy/Python float is modelled as an exact extended         *)
(* rational <<n, d>>: d > 0 and gcd(n, d) = 1 for a finite value, <<0, 0>> *)
(* for NaN, <<1, 0>> for +inf and <<-1, 0>> for -inf.  Arithmetic is exact *)
(* (rounding is not modelled); division by zero, inf - inf and 0 * inf     *)
(* behave as numpy does (inf / NaN), and Python scalar division by zero    *)
(* raises ZeroDivisionError.                                               *)
(*                                                                         *)
(* Log domain.  A value x that the code keeps in the log domain (LogLt,    *)
(* LogRatio, log(w), logq) is represented by exp(x): log-domain "+" is     *)
(* Mul, "-" is Div, -inf is 0, and np.log of a negative number is NaN.     *)
(*                                                                         *)
(* Particles are 1-dimensional: a particle matrix is a sequence of small   *)
(* integers.  Array indices are 0-based as in the source; the TLA+         *)
(* sequences holding the arrays are 1-based.                               *)
(***************************************************************************)
EXTENDS Integers, Sequences, FiniteSets, TLC

VARIABLES
    ctor,       \* the arguments BerParticleFilter(...) was constructed with
    self,       \* the newest BerParticleFilter instance (NoObject: construction raised)
    old,        \* the instance the last transition was called on, as it is now
    rng,        \* the np.random.Generator every instance refers to: variates consumed
    exc,        \* the exception the last constructor / transition call raised
    rs_weights, \* _sysresample on its own: the weights argument
    rs_Nsuv,    \*                          the Nsuv argument
    rs_out      \*                          what the call did (NoObject before it)

vars == <<ctor, self, old, rng, exc, rs_weights, rs_Nsuv, rs_out>>

-----------------------------------------------------------------------------
(* Bounds of the model *)

\* largest Nsuv / Nbirth a filter is constructed with
MaxN == 2
\* transitions are made while rng has handed out fewer than MaxDraws variates
MaxDraws == 5
\* rng.random() returns one of 0/UDen .. (UDen-1)/UDen
UDen == 4
\* _sysresample on its own: weights are multiples of 1/WDen, at most MaxM of them
WDen == 4
MaxM == 3
\* _sysresample on its own: the largest requested count
MaxReq == 3

-----------------------------------------------------------------------------
(* Extended rationals *)

NoObject == [kind |-> "None"]

Abs(n) == IF n < 0 THEN -n ELSE n
Sign(n) == IF n < 0 THEN -1 ELSE IF n > 0 THEN 1 ELSE 0

RECURSIVE GCD(_, _)
GCD(a, b) == IF b = 0 THEN a ELSE GCD(b, a % b)

\* the value n/d, for any integers n and d (d = 0 gives NaN or an infinity)
Rat(n, d) ==
    IF d = 0 THEN <<Sign(n), 0>>
    ELSE LET g == GCD(Abs(n), Abs(d))
         IN  <<Sign(d) * (n \div g), Abs(d) \div g>>

NaN == <<0, 0>>
Zero == <<0, 1>>
One == <<1, 1>>
Int2Num(k) == <<k, 1>>

IsNaN(x) == x = NaN

Mul(a, b) == Rat(a[1] * b[1], a[2] * b[2])
\* numpy division: x/0 = +-inf, 0/0 = NaN
Div(a, b) == Rat(a[1] * b[2], a[2] * b[1])
Neg(a) == <<-a[1], a[2]>>
Add(a, b) ==
    IF IsNaN(a) \/ IsNaN(b) THEN NaN
    ELSE IF a[2] = 0 /\ b[2] = 0 THEN (IF a = b THEN a ELSE NaN)
    ELSE IF a[2] = 0 THEN a
    ELSE IF b[2] = 0 THEN b
    ELSE Rat(a[1] * b[2] + b[1] * a[2], a[2] * b[2])
Sub(a, b) == Add(a, Neg(b))

\* a < b as IEEE compares: FALSE when either is NaN
Less(a, b) ==
    IF IsNaN(a) \/ IsNaN(b) THEN FALSE
    ELSE IF a[2] = 0 /\ b[2] = 0 THEN a[1] < b[1]
    ELSE a[1] * b[2] < b[1] * a[2]
Leq(a, b) == Less(a, b) \/ (a = b /\ ~IsNaN(a))

\* np.log / np.exp on the exp-representation of a log-domain value
Log(x) == IF IsNaN(x) \/ x[1] < 0 THEN NaN ELSE x

RECURSIVE Sum(_)
\* np.sum: 0.0 for an empty array
Sum(s) == IF s = <<>> THEN Zero ELSE Add(Sum(SubSeq(s, 1, Len(s) - 1)), s[Len(s)])

RECURSIVE Max(_)
\* np.max of a non-empty array: NaN if any entry is NaN
Max(s) ==
    IF Len(s) = 1 THEN s[1]
    ELSE LET m == Max(SubSeq(s, 1, Len(s) - 1))
             x == s[Len(s)]
         IN  IF IsNaN(m) \/ IsNaN(x) THEN NaN
             ELSE IF Less(m, x) THEN x ELSE m

Scale(c, s) == [k \in 1..Len(s) |-> Mul(c, s[k])]
DivAll(s, c) == [k \in 1..Len(s) |-> Div(s[k], c)]
Squares(s) == [k \in 1..Len(s) |-> Mul(s[k], s[k])]
HasNaN(s) == \E k \in 1..Len(s) : IsNaN(s[k])

Min2(a, b) == IF a < b THEN a ELSE b

-----------------------------------------------------------------------------
(* _sysresample *)

\* np.cumsum
cumsum(weights) == [k \in 1..Len(weights) |-> Sum(SubSeq(weights, 1, k))]

\* positions = (rng.random() + np.arange(N)) / N
positions(u, N) ==
    [k \in 1..(IF N > 0 THEN N ELSE 0) |-> Div(Add(u, Int2Num(k - 1)), Int2Num(N))]

RECURSIVE SysLoopLeq(_, _, _, _, _, _)
\* the loop with "positions[i] <= cumsum[j]" for "<"
SysLoopLeq(pos, cs, N, i, j, indices) ==
    IF ~(i < N) THEN [exc |-> "none", indices |-> indices, j |-> j]
    ELSE IF j >= Len(cs) THEN [exc |-> "IndexError", indices |-> indices, j |-> j]
    ELSE IF Leq(pos[i + 1], cs[j + 1])
         THEN SysLoopLeq(pos, cs, N, i + 1, j, Append(indices, j))
         ELSE SysLoopLeq(pos, cs, N, i, j + 1, indices)

RECURSIVE SysLoopOffByOne(_, _, _, _, _, _)
\* the loop with "indices[i] = j + 1" for "indices[i] = j"
SysLoopOffByOne(pos, cs, N, i, j, indices) ==
    IF ~(i < N) THEN [exc |-> "none", indices |-> indices, j |-> j]
    ELSE IF j >= Len(cs) THEN [exc |-> "IndexError", indices |-> indices, j |-> j]
    ELSE IF Less(pos[i + 1], cs[j + 1])
         THEN SysLoopOffByOne(pos, cs, N, i + 1, j, Append(indices, j + 1))
         ELSE SysLoopOffByOne(pos, cs, N, i, j + 1, indices)

RECURSIVE SysLoop(_, _, _, _, _, _)
\* while i < N: ... ; reading cumsum[j] with j = len(cumsum) raises IndexError
SysLoop(pos, cs, N, i, j, indices) ==
    IF ~(i < N) THEN [exc |-> "none", indices |-> indices, j |-> j]
    ELSE IF j >= Len(cs) THEN [exc |-> "IndexError", indices |-> indices, j |-> j]
    ELSE IF Less(pos[i + 1], cs[j + 1])
         THEN SysLoop(pos, cs, N, i + 1, j, Append(indices, j))
         ELSE SysLoop(pos, cs, N, i, j + 1, indices)

\* what rng.random() can return, and what rng.choice(M, N) can return
RandomU == {Rat(k, UDen) : k \in 0..(UDen - 1)}
Picks(M, N) == [1..N -> 0..(M - 1)]

\* _sysresample without the NaN test
SysresampleNoNaNTest(weights, Nsuv) ==
    LET N == Min2(Len(weights), Nsuv)
    IN  IF N < 0
        THEN {[exc |-> "ValueError", indices |-> <<>>, j |-> 0, used |-> 1]}
        ELSE {[exc |-> r.exc, indices |-> r.indices, j |-> r.j, used |-> 1] :
                 r \in {SysLoop(positions(u, N), cumsum(weights), N, 0, 0, <<>>) :
                           u \in RandomU}}

\* _sysresample(weights, Nsuv, rng): the set of outcomes over what rng can hand
\* out.  An outcome: the exception raised ("none": returned), the indices
\* returned, the last value of the pointer j, the variates drawn from rng.
_sysresample(weights, Nsuv) ==
    LET N == Min2(Len(weights), Nsuv)
    IN  IF HasNaN(weights)
        THEN IF N < 0
             THEN {[exc |-> "ValueError", indices |-> <<>>, j |-> 0, used |-> 0]}
             ELSE {[exc |-> "none", indices |-> pick, j |-> 0, used |-> N] :
                      pick \in Picks(Len(weights), N)}
        ELSE IF N < 0
        THEN {[exc |-> "ValueError", indices |-> <<>>, j |-> 0, used |-> 1]}
        ELSE {[exc |-> r.exc, indices |-> r.indices, j |-> r.j, used |-> 1] :
                 r \in {SysLoop(positions(u, N), cumsum(weights), N, 0, 0, <<>>) :
                           u \in RandomU}}

-----------------------------------------------------------------------------
(* The numerical helpers of the transition *)

\* np.nonzero(weight_predictions): the 0-based indices of the entries that
\* are not 0 (a NaN entry is not 0)
nonzero(weights) ==
    SelectSeq([k \in 1..Len(weights) |-> k - 1], LAMBDA i : weights[i + 1] # Zero)

\* _logsumexp(x) on exp-representations; the caller passes a non-empty x.
\* c = np.max(x); c + np.log(np.sum(np.exp(x - c)))
_logsumexp(x) ==
    LET c == Max(x)
    IN  Mul(c, Log(Sum([k \in 1..Len(x) |-> Div(x[k], c)])))

\* np.min([q, 1]): NaN if q is NaN
MinWithOne(q) == IF IsNaN(q) THEN NaN ELSE IF Less(q, One) THEN q ELSE One

\* _update_existance_prob(weight_predictions, LogRatio, prob_prediction): the
\* exception raised ("none": returned) and the value returned
_update_existance_prob(weight_predictions, LogRatio, prob_prediction) ==
    LET non_zero == nonzero(weight_predictions)
    IN  IF \E k \in 1..Len(non_zero) : non_zero[k] >= Len(LogRatio)
        THEN [exc |-> "IndexError", val |-> NaN]      \* LogRatio[non_zero]
        ELSE IF non_zero = <<>>
        THEN [exc |-> "ValueError", val |-> NaN]      \* np.max of an empty array
        ELSE
        LET wp == [k \in 1..Len(non_zero) |-> weight_predictions[non_zero[k] + 1]]
            y == [k \in 1..Len(non_zero) |-> LogRatio[non_zero[k] + 1]]
            x1 == [k \in 1..Len(y) |-> Mul(y[k], Log(wp[k]))]
            x2 == <<Log(Sub(One, prob_prediction))>> \o
                  [k \in 1..Len(y) |-> Mul(Mul(y[k], Log(prob_prediction)), Log(wp[k]))]
            logq == Div(Mul(_logsumexp(x1), Log(prob_prediction)), _logsumexp(x2))
        IN  [exc |-> "none", val |-> MinWithOne(logq)]

\* _weight_update(LogLt, weight_predictions)
_weight_update(LogLt, weight_predictions) ==
    LET non_zero == nonzero(weight_predictions)
    IN  IF \E k \in 1..Len(non_zero) : non_zero[k] >= Len(LogLt)
        THEN [exc |-> "IndexError", val |-> <<>>]     \* LogLt[non_zero]
        ELSE IF non_zero = <<>>
        THEN [exc |-> "ValueError", val |-> <<>>]     \* np.max of an empty array
        ELSE
        LET x == [k \in 1..Len(non_zero) |->
                     Mul(LogLt[non_zero[k] + 1], Log(weight_predictions[non_zero[k] + 1]))]
            lse == _logsumexp(x)
        IN  [exc |-> "none",
             val |-> [k \in 1..Len(weight_predictions) |->
                        IF weight_predictions[k] # Zero
                        THEN Div(Mul(LogLt[k], Log(weight_predictions[k])), lse)
                        ELSE Zero]]

-----------------------------------------------------------------------------
(* The collaborators *)

None == [some |-> FALSE]
Some(x) == [some |-> TRUE, val |-> x]

\* the coordinates the birth model draws from
ParticleVals == {0, 1}
\* a transition is given no measurement set or one measurement
MeasurementVals == {None} \cup {Some(z) : z \in ParticleVals}

\* birth_model(measurements, Nbirth, rng): Nbirth rows drawn with rng (the
\* test's rng.standard_normal((Nbirth, 3)): a negative count raises ValueError)
birth_model(measurements, Nbirth) ==
    IF Nbirth < 0
    THEN [exc |-> "ValueError", particles |-> {}, used |-> 0]
    ELSE [exc |-> "none", particles |-> [1..Nbirth -> ParticleVals], used |-> Nbirth]

\* motion_model(particles): the test's identity
motion_model(particles) == particles

\* likelihood_fn(particles, measurements) -> (LogLt, LogRatio), one entry per
\* particle.  "flat": log-likelihood and log-ratio 0 everywhere.  "peaked":
\* finite values that favour the particles at the measurement (none given:
\* evidence against existence).  "sparse": as "peaked" with LogLt = -inf
\* away from the measurement.
LikelihoodFns == {"flat", "peaked", "sparse"}
FiniteLikelihoodFns == {"flat", "peaked"}
likelihood_fn(name, particles, measurements) ==
    LET n == Len(particles)
        hit(k) == measurements.some /\ particles[k] = measurements.val
    IN  IF name = "flat"
        THEN [LogLt |-> [k \in 1..n |-> One], LogRatio |-> [k \in 1..n |-> One]]
        ELSE IF ~measurements.some
        THEN [LogLt |-> [k \in 1..n |-> One], LogRatio |-> [k \in 1..n |-> Rat(1, 2)]]
        ELSE IF name = "peaked"
        THEN [LogLt |-> [k \in 1..n |-> IF hit(k) THEN Int2Num(2) ELSE Rat(1, 2)],
              LogRatio |-> [k \in 1..n |-> IF hit(k) THEN Int2Num(2) ELSE Rat(1, 2)]]
        ELSE [LogLt |-> [k \in 1..n |-> IF hit(k) THEN One ELSE Zero],
              LogRatio |-> [k \in 1..n |-> IF hit(k) THEN Int2Num(2) ELSE Rat(1, 2)]]

-----------------------------------------------------------------------------
(* BerParticleFilter *)

\* np.ones(n) / n as a numpy array division (n = 0: the empty array)
Uniform(n) == [k \in 1..n |-> Rat(1, n)]

\* BerParticleFilter.__init__(...): the set of outcomes over what rng can hand
\* out.  An outcome: the exception raised, the instance built, the variates
\* drawn.  prob_np tells whether prob is an np.float64 (TRUE) or a Python
\* number (FALSE); the field rng names the generator object referred to.
__init__(args) ==
    LET b == IF args.particles_born.some
             THEN [exc |-> "none", particles |-> {args.particles_born.val}, used |-> 0]
             ELSE birth_model(None, args.Nbirth)
    IN  IF b.exc # "none"
        THEN {[exc |-> b.exc, obj |-> NoObject, used |-> 0]}
        ELSE IF ~args.weights_born.some /\ args.Nbirth = 0
        THEN {[exc |-> "ZeroDivisionError", obj |-> NoObject, used |-> b.used]}  \* 1/Nbirth
        ELSE IF ~args.weights_born.some /\ args.Nbirth < 0
        THEN {[exc |-> "ValueError", obj |-> NoObject, used |-> b.used]}   \* np.ones(Nbirth)
        ELSE
        {[exc |-> "none", used |-> b.used,
          obj |-> [kind |-> "BerParticleFilter",
                   prob |-> args.prob,
                   prob_np |-> args.prob_np,
                   particles_born |-> particles_born,
                   weights_born |-> IF args.weights_born.some
                                    THEN args.weights_born.val
                                    ELSE Scale(Rat(1, args.Nbirth),
                                               [k \in 1..args.Nbirth |-> One]),
                   particles_surv |-> IF args.particles_surv.some
                                      THEN args.particles_surv.val ELSE <<>>,
                   weights_surv |-> IF args.weights_surv.some
                                    THEN args.weights_surv.val ELSE <<>>,
                   Nsuv |-> args.Nsuv,
                   Nbirth |-> args.Nbirth,
                   prob_birth |-> args.prob_birth,
                   prob_surv |-> args.prob_surv,
                   likelihood_fn |-> args.likelihood_fn,
                   N_eff |-> args.N_eff,
                   N_eff_surv |-> args.N_eff_surv,
                   N_eff_surv_normalized |-> args.N_eff_surv_normalized,
                   N_eff_born |-> args.N_eff_born,
                   N_eff_born_normalized |-> args.N_eff_born_normalized,
                   rng |-> args.rng]] : particles_born \in b.particles}

\* parameters(): self.__dict__ as constructor arguments
parameters(slf) ==
    [Nsuv |-> slf.Nsuv, Nbirth |-> slf.Nbirth,
     prob_birth |-> slf.prob_birth, prob_surv |-> slf.prob_surv,
     likelihood_fn |-> slf.likelihood_fn,
     prob |-> slf.prob, prob_np |-> slf.prob_np,
     particles_born |-> Some(slf.particles_born),
     weights_born |-> Some(slf.weights_born),
     particles_surv |-> Some(slf.particles_surv),
     weights_surv |-> Some(slf.weights_surv),
     N_eff |-> slf.N_eff, N_eff_surv |-> slf.N_eff_surv,
     N_eff_surv_normalized |-> slf.N_eff_surv_normalized,
     N_eff_born |-> slf.N_eff_born,
     N_eff_born_normalized |-> slf.N_eff_born_normalized,
     rng |-> slf.rng]

\* dict(a, **kwargs)
Merge(a, kwargs) ==
    [f \in DOMAIN a |-> IF f \in DOMAIN kwargs THEN kwargs[f] ELSE a[f]]

\* override that stores kwargs into the receiver and returns it:
\* self.__dict__.update(kwargs); return self
OverrideInPlace(slf, kwargs) ==
    LET obj == (CHOOSE o \in __init__(Merge(parameters(slf), kwargs)) : TRUE).obj
    IN  [new |-> obj, self |-> obj]

\* override(**kwargs): the instance returned and the receiver after the call.
\* Every array argument is given, so __init__ draws nothing and cannot raise.
override(slf, kwargs) ==
    [new |-> (CHOOSE o \in __init__(Merge(parameters(slf), kwargs)) : TRUE).obj,
     self |-> slf]

\* 1/np.sum(x**2)
Ess(x) == Div(One, Sum(Squares(x)))

\* BerParticleFilter.__call__(measurements): the set of outcomes over what rng
\* can hand out.  An outcome: the exception raised ("none": returned), the
\* instance returned, the receiver after the call, the variates drawn.
__call__(slf, measurements) ==
    LET q == slf.prob
        prob_surv == slf.prob_surv
        prob_birth == slf.prob_birth
        Nsuv == slf.Nsuv
        Nbirth == slf.Nbirth
        Raise(e, used) == [exc |-> e, new |-> NoObject, self |-> slf, used |-> used]
        particles == slf.particles_surv \o slf.particles_born
        particles_p == motion_model(particles)
        q_p == Add(Mul(prob_birth, Sub(One, q)), Mul(prob_surv, q))
    IN  \* q/q_p on Python numbers (prob of a constructed instance) raises
        IF ~slf.prob_np /\ q_p = Zero THEN {Raise("ZeroDivisionError", 0)}
        ELSE
        LET weights_c == Scale(Div(Mul(prob_surv, q), q_p), slf.weights_surv) \o
                         Scale(Div(Mul(prob_birth, Sub(One, q)), q_p), slf.weights_born)
            weights_p == DivAll(weights_c, Sum(weights_c))
            lik == likelihood_fn(slf.likelihood_fn, particles_p, measurements)
            qr == _update_existance_prob(weights_p, lik.LogRatio, q_p)
            wr == _weight_update(lik.LogLt, weights_p)
        IN  IF qr.exc # "none" THEN {Raise(qr.exc, 0)}
            ELSE IF wr.exc # "none" THEN {Raise(wr.exc, 0)}
            ELSE
            LET w == DivAll(wr.val, Sum(wr.val))
                Nsurv == Len(slf.particles_surv)
                w_head == SubSeq(w, 1, Min2(Nsurv, Len(w)))
                w_tail == SubSeq(w, Nsurv + 1, Len(w))
                b == birth_model(measurements, Nbirth)
                Result(r, particles_born) ==
                    override(slf,
                       [particles_born |-> Some(particles_born),
                        weights_born |-> Some(Uniform(Nbirth)),
                        particles_surv |->
                            Some([k \in 1..Len(r.indices) |-> particles_p[r.indices[k] + 1]]),
                        weights_surv |-> Some(Uniform(Nsuv)),
                        prob |-> qr.val,
                        prob_np |-> TRUE,
                        N_eff |-> Ess(w),
                        N_eff_surv |-> IF Nsurv # 0 THEN Ess(w_head) ELSE NaN,
                        N_eff_surv_normalized |->
                            IF Nsurv # 0 THEN Ess(DivAll(w_head, Sum(w_head))) ELSE NaN,
                        N_eff_born |-> Ess(w_tail),
                        N_eff_born_normalized |-> Ess(DivAll(w_tail, Sum(w_tail)))])
            IN  UNION {
                  IF r.exc # "none" THEN {Raise(r.exc, r.used)}
                  ELSE IF \E k \in 1..Len(r.indices) : r.indices[k] >= Len(particles_p)
                  THEN {Raise("IndexError", r.used)}     \* particles_p[indices]
                  ELSE IF b.exc # "none" THEN {Raise(b.exc, r.used)}
                  ELSE {[exc |-> "none", new |-> o.new, self |-> o.self,
                         used |-> r.used + b.used] :
                           o \in {Result(r, pb) : pb \in b.particles}}
                  : r \in _sysresample(w, Nsuv)}

-----------------------------------------------------------------------------
(* The filter: construction, then a chain of transitions *)

\* the constructor's arguments other than the counts, the probabilities, the
\* likelihood and the newborn population: the defaults of __init__
CtorDefaults ==
    [Nsuv |-> 1, Nbirth |-> 1, prob_birth |-> Rat(1, 2), prob_surv |-> Rat(1, 2),
     likelihood_fn |-> "flat",
     prob |-> Zero, prob_np |-> FALSE,
     particles_born |-> None, weights_born |-> None,
     particles_surv |-> None, weights_surv |-> None,
     N_eff |-> NaN, N_eff_surv |-> NaN, N_eff_surv_normalized |-> NaN,
     N_eff_born |-> NaN, N_eff_born_normalized |-> NaN,
     rng |-> "default_rng"]

\* well-formed arguments: counts in 1..MaxN, probabilities 0, 1/2 or 1
ValidArgs ==
    {[CtorDefaults EXCEPT !.Nsuv = ns, !.Nbirth = nb,
                          !.prob_birth = Rat(pb, 2), !.prob_surv = Rat(ps, 2),
                          !.likelihood_fn = lf] :
        ns \in 1..MaxN, nb \in 1..MaxN, pb \in 0..2, ps \in 0..2, lf \in LikelihoodFns}

\* arguments with one defect: a count that is 0 or negative, a probability
\* outside [0,1], or a newborn population whose particle and weight counts differ
InvalidArgs ==
    {[CtorDefaults EXCEPT !.Nsuv = n] : n \in {-1, 0}}
    \cup {[CtorDefaults EXCEPT !.Nbirth = n] : n \in {-1, 0}}
    \cup {[CtorDefaults EXCEPT !.prob_birth = Rat(k, 2)] : k \in {-1, 3}}
    \cup {[CtorDefaults EXCEPT !.prob_surv = Rat(k, 2)] : k \in {-1, 3}}
    \cup {[CtorDefaults EXCEPT !.particles_born = Some(<<0, 1>>),
                               !.weights_born = Some(<<One>>)],
          [CtorDefaults EXCEPT !.particles_born = Some(<<0>>),
                               !.weights_born = Some(<<Rat(1, 2), Rat(1, 2)>>)]}

CtorArgs == ValidArgs \cup InvalidArgs

Init ==
    /\ ctor \in CtorArgs
    /\ \E o \in __init__(ctor) :
          /\ self = o.obj
          /\ exc = o.exc
          /\ rng = o.used
    /\ old = NoObject
    /\ rs_weights = <<>> /\ rs_Nsuv = 0 /\ rs_out = NoObject

\* new = self(measurements); an uncaught exception ends the run
Call ==
    /\ self # NoObject
    /\ exc = "none"
    /\ rng < MaxDraws
    /\ \E measurements \in MeasurementVals :
       \E o \in __call__(self, measurements) :
          /\ self' = IF o.exc = "none" THEN o.new ELSE o.self
          /\ old' = o.self
          /\ exc' = o.exc
          /\ rng' = rng + o.used
    /\ UNCHANGED <<ctor, rs_weights, rs_Nsuv, rs_out>>

Next == Call

Spec == Init /\ [][Next]_vars

-----------------------------------------------------------------------------
(* Claims about the filter (checked under Spec) *)

IsFilter(o) == o.kind = "BerParticleFilter"
\* the last transition call returned: self is the state it returned
Returned == IsFilter(old) /\ exc = "none"
InUnitInterval(x) == Leq(Zero, x) /\ Leq(x, One)
\* the constructor was given positive counts, probabilities in [0,1] and no
\* population of the caller's: a freshly constructed, well-formed filter
WellFormed ==
    /\ ctor.Nsuv > 0 /\ ctor.Nbirth > 0
    /\ InUnitInterval(ctor.prob_birth) /\ InUnitInterval(ctor.prob_surv)
    /\ ~ctor.particles_born.some /\ ~ctor.weights_born.some
\* the constructor was given a negative count, a probability outside [0,1]
\* or a population whose particle and weight counts differ
InvalidInput ==
    \/ ctor.Nsuv < 0 \/ ctor.Nbirth < 0
    \/ ~InUnitInterval(ctor.prob_birth) \/ ~InUnitInterval(ctor.prob_surv)
    \/ /\ ctor.particles_born.some /\ ctor.weights_born.some
       /\ Len(ctor.particles_born.val) # Len(ctor.weights_born.val)
IsUniform(weights, n) ==
    Len(weights) = n /\ \A k \in 1..Len(weights) : weights[k] = Rat(1, n)

\* C1: with Nsuv > 0 and Nbirth > 0, the state any transition returns has
\* Nsuv surviving and Nbirth newborn particles, and both weight vectors are
\* uniform (1/Nsuv, 1/Nbirth).
C1_PopulationSizesAfterTransition ==
    (Returned /\ WellFormed)
        => /\ Len(self.particles_surv) = self.Nsuv
           /\ Len(self.particles_born) = self.Nbirth
           /\ IsUniform(self.weights_surv, self.Nsuv)
           /\ IsUniform(self.weights_born, self.Nbirth)

\* C2: in the constructed state and in every state a transition returns, each
\* population has as many particles as weights.
C2_ParticlesMatchWeights ==
    (IsFilter(self) /\ WellFormed)
        => /\ Len(self.particles_surv) = Len(self.weights_surv)
           /\ Len(self.particles_born) = Len(self.weights_born)

\* C3: for a well-formed configuration and a likelihood that returns finite
\* values, the existence probability of every returned state lies in [0,1]
\* (in particular it is not NaN).
C3_ProbInUnitInterval ==
    (Returned /\ WellFormed /\ ctor.likelihood_fn \in FiniteLikelihoodFns)
        => InUnitInterval(self.prob)

\* C5 as claimed: when a transition call on a well-formed filter returns,
\* every field of the state it was called on is as it was, the random source
\* included.
C5_ReceiverAndRngUntouched ==
    [][(exc' = "none" /\ WellFormed) => (old' = self /\ rng' = rng)]_vars

\* C5 as amended: a transition call leaves every field of the state it is
\* called on as it was, except the random source: the generator the state
\* refers to is the one the returned state refers to, and for a well-formed
\* filter every call that returns has advanced it.
C5_ReceiverUntouchedRngAdvanced ==
    [][/\ old' = self
       /\ rng' >= rng
       /\ exc' = "none" => /\ self'.rng = self.rng
                           /\ WellFormed => rng' > rng]_vars

\* a transition has returned a state that differs from the one it was called
\* on, which still holds what the constructor put there
C5_Witness ==
    /\ Returned /\ WellFormed
    /\ old.prob = Zero /\ old.particles_surv = <<>> /\ IsNaN(old.N_eff)
    /\ self.prob # Zero /\ self.particles_surv # <<>> /\ ~IsNaN(self.N_eff)
    /\ rng > ctor.Nbirth

\* C6: a filter constructed with a negative count, a probability outside
\* [0,1] or a population whose particle and weight counts differ is rejected:
\* the constructor raises, or else the transition called on it raises and
\* returns no state.
C6_InvalidInputsRejected ==
    (IsFilter(old) /\ InvalidInput) => exc # "none"

-----------------------------------------------------------------------------
(* _sysresample on its own *)

WeightVals == {Rat(k, WDen) : k \in 0..WDen} \cup {NaN}
WeightVectors == UNION {[1..m -> WeightVals] : m \in 0..MaxM}

InitResample ==
    /\ rs_weights \in WeightVectors
    /\ rs_Nsuv \in 0..MaxReq
    /\ rs_out = NoObject
    /\ ctor = NoObject /\ self = NoObject /\ old = NoObject
    /\ rng = 0 /\ exc = "none"

Resample ==
    /\ rs_out = NoObject
    /\ \E r \in _sysresample(rs_weights, rs_Nsuv) :
          rs_out' = [kind |-> "result", exc |-> r.exc, indices |-> r.indices,
                     j |-> r.j, used |-> r.used]
    /\ UNCHANGED <<ctor, self, old, rng, exc, rs_weights, rs_Nsuv>>

NextResample == Resample

SpecResample == InitResample /\ [][NextResample]_vars

-----------------------------------------------------------------------------
(* Claims about _sysresample (checked under SpecResample) *)

rs_M == Len(rs_weights)
rs_N == Min2(Len(rs_weights), rs_Nsuv)
rs_Done == rs_out.kind = "result"
rs_Returned == rs_Done /\ rs_out.exc = "none"
\* the weights are nonnegative (WeightVals has no negative value) and sum to 1
rs_SumsToOne == ~HasNaN(rs_weights) /\ Sum(rs_weights) = One
\* the weights have no NaN and sum to 1 or to slightly less: to 1 - 1/WDen
rs_SumNearOne ==
    /\ ~HasNaN(rs_weights)
    /\ Leq(Rat(WDen - 1, WDen), Sum(rs_weights)) /\ Leq(Sum(rs_weights), One)
rs_Count(i) == Cardinality({k \in 1..Len(rs_out.indices) : rs_out.indices[k] = i})
Floor(x) == x[1] \div x[2]
Ceil(x) == (x[1] + x[2] - 1) \div x[2]

\* C7: for a weight vector of length M >= 1 without NaN, _sysresample never
\* moves its pointer j past the last index M-1 (it never reads cumsum out of
\* bounds), also when the weights sum to less than the largest sampling
\* position, and it returns min(M, Nsuv) indices.  Stated for the weight
\* vectors the claim singles out: those summing to 1 or to slightly less.
C7_PointerStaysInBounds ==
    (rs_Done /\ rs_M >= 1 /\ rs_SumNearOne)
        => /\ rs_out.exc = "none"
           /\ rs_out.j <= rs_M - 1
           /\ Len(rs_out.indices) = rs_N

\* C8: for nonnegative weights summing to 1 and any offset u, the index
\* sequence _sysresample returns has exactly N = min(M, Nsuv) entries, each
\* entry is an index in 0..M-1, and the sequence is non-decreasing.
C8_IndicesValidAndSorted ==
    (rs_Returned /\ rs_SumsToOne)
        => /\ Len(rs_out.indices) = rs_N
           /\ \A k \in 1..Len(rs_out.indices) : rs_out.indices[k] \in 0..(rs_M - 1)
           /\ \A k \in 1..(Len(rs_out.indices) - 1) :
                 rs_out.indices[k] <= rs_out.indices[k + 1]

\* a returned sequence for weights summing to 1 that repeats one index and
\* then moves on to a larger one
C8_Witness ==
    /\ rs_Returned /\ rs_SumsToOne /\ rs_N = 3
    /\ rs_out.indices[1] = rs_out.indices[2]
    /\ rs_out.indices[2] < rs_out.indices[3]

\* C9: when any weight is NaN the cumulative-weight selection is bypassed:
\* the call returns N = min(M, Nsuv) indices, and the sequences it can return
\* are exactly the sequences of N indices from 0..M-1, whatever the weights
\* are (every index is possible at every position).
C9_NaNFallsBackToUniformDraws ==
    HasNaN(rs_weights)
        => /\ {r.indices : r \in _sysresample(rs_weights, rs_Nsuv)}
                  = [1..rs_N -> 0..(rs_M - 1)]
           /\ \A r \in _sysresample(rs_weights, rs_Nsuv) : r.exc = "none" /\ r.j = 0
           /\ rs_Done => /\ rs_out.exc = "none"
                         /\ rs_out.indices \in [1..rs_N -> 0..(rs_M - 1)]

\* a NaN weight vector whose returned draw holds an index of weight 0 and
\* is not sorted
C9_Witness ==
    /\ rs_Returned /\ HasNaN(rs_weights) /\ rs_N = 3
    /\ rs_weights[3] = Zero
    /\ rs_out.indices = <<2, 0, 1>>

\* C10: for nonnegative weights summing to 1, the number of times the returned
\* sequence holds index i is floor(N*weights[i]) or ceil(N*weights[i]); so an
\* index of weight 0 is never selected and one of weight >= 1/N is selected.
C10_CountsWithinFloorCeil ==
    (rs_Returned /\ rs_SumsToOne)
        => \A i \in 0..(rs_M - 1) :
              LET x == Mul(Int2Num(rs_N), rs_weights[i + 1])
              IN  rs_Count(i) \in {Floor(x), Ceil(x)}

\* weights 0, 3/4, 1/4 and three draws: index 0 is skipped, index 1 taken
\* three times (the ceiling of 9/4), index 2 not at all (the floor of 3/4)
C10_Witness ==
    /\ rs_Returned /\ rs_SumsToOne /\ rs_N = 3
    /\ rs_weights = <<Zero, Rat(3, 4), Rat(1, 4)>>
    /\ rs_out.indices = <<1, 1, 1>>

====
